---------------------------- MODULE Spec2Model ----------------------------
(***************************************************************************)
(* Model of the order-upload pipeline of sweepingapp (backend/main.py):    *)
(* process_upload_background (ingest, normalise, reconcile against the     *)
(* external system in timeout-protected chunks, upsert, task tracking)     *)
(* and the orderlist handoff writer of the synchronous upload endpoint.    *)
(*                                                                         *)
(* Strings whose trimming matters (order-number cells) are sequences of    *)
(* one-character strings.  Python None / SQL NULL is the value None.       *)
(* An item-id list is the sequence of its identifiers (the comma-joined    *)
(* text); the empty sequence stands for None, which is what                *)
(* aggregate_skus returns when no identifier is left.                      *)
(***************************************************************************)
EXTENDS Integers, Sequences, FiniteSets, TLC

VARIABLES
    tasks,      \* upload_tasks table: task id -> [status, error_message, total_orders]
    store,      \* uploaded_orders table: a set of rows
    nextId,     \* the primary-key sequence of uploaded_orders
    history,    \* upload_history table: the tasks that committed a row
    clock,      \* wall clock read by get_wib_now()
    faults,     \* database faults injected so far
    loc,        \* per task: the locals of process_upload_background
    thr,        \* per task: the detached per-chunk worker threads
    fs,         \* orderlist files on disk: path -> [exists, lines, readonly]
    gen,        \* per request to upload_file: its rows and its orderlist run
    upload_queue,       \* MultiUserHandler.upload_queue: a list of upload dicts
    processing_queue,   \* MultiUserHandler.processing_queue
    user_workspaces,    \* MultiUserHandler.user_workspaces: the users that have one
    lock,               \* MultiUserHandler.lock: "free" or the thread holding it
    unix_time,          \* int(time.time()), the second add_to_upload_queue reads
    worker,             \* the thread running process_upload_queue: [pc, upload_task]
    calls,              \* per request thread: the handler call it is in
    issued,             \* the task ids add_to_upload_queue returned, in queue order
    processed           \* the uploads the worker finished, in order

pipeline == <<tasks, store, nextId, history, clock, faults, loc, thr, fs, gen>>

handler == <<upload_queue, processing_queue, user_workspaces, lock, unix_time,
             worker, calls, issued, processed>>

vars == <<tasks, store, nextId, history, clock, faults, loc, thr, fs, gen,
          upload_queue, processing_queue, user_workspaces, lock, unix_time,
          worker, calls, issued, processed>>

None == "None"

\* ------------------------------------------------------------------ bounds
\* Chunk size of the reconciler, scaled down from the program's 100
\* (main.py:1164) so that an upload of two orders has two chunks.
EXTERNAL_CHUNK_SIZE == 1
\* Database faults (a commit that raises) injected per behaviour.
MaxFaults == 1
\* Clock ticks per second: strftime('%Y%m%d_%H%M%S') of line 1859 keeps
\* whole seconds only.
TicksPerSecond == 2

\* ----------------------------------------------------------- text helpers
Chars == {" ", "a", "b", "n"}

CharRank(c) == CASE c = " " -> 0 [] c = "a" -> 1 [] c = "b" -> 2 [] OTHER -> 3

RECURSIVE LStrip(_)
LStrip(s) == IF s # <<>> /\ Head(s) = " " THEN LStrip(Tail(s)) ELSE s

RECURSIVE RStrip(_)
RStrip(s) ==
    IF s # <<>> /\ s[Len(s)] = " " THEN RStrip(SubSeq(s, 1, Len(s) - 1)) ELSE s

\* str.strip()
Strip(s) == RStrip(LStrip(s))

NanText == <<"n", "a", "n">>

\* Python's string comparison, which pandas' groupby uses to sort its keys.
RECURSIVE LexLess(_, _)
LexLess(s, t) ==
    IF t = <<>> THEN FALSE
    ELSE IF s = <<>> THEN TRUE
    ELSE IF Head(s) # Head(t) THEN CharRank(Head(s)) < CharRank(Head(t))
    ELSE LexLess(Tail(s), Tail(t))

RECURSIVE SortedSeq(_)
SortedSeq(S) ==
    IF S = {} THEN <<>>
    ELSE LET m == CHOOSE x \in S : \A y \in S \ {x} : LexLess(x, y)
         IN  <<m>> \o SortedSeq(S \ {m})

\* Series.unique(): the distinct values in order of first appearance.
RECURSIVE Unique(_)
Unique(s) ==
    IF s = <<>> THEN <<>>
    ELSE LET front == Unique(SubSeq(s, 1, Len(s) - 1))
             last  == s[Len(s)]
         IN  IF \E i \in 1..Len(front) : front[i] = last THEN front
             ELSE Append(front, last)

Range(s) == {s[i] : i \in 1..Len(s)}

\* ------------------------------------------------------------ normalisation
\* A spreadsheet row: the order-number cell (after fillna('').astype(str)),
\* the SKU cell and one scalar cell standing for status/date/carrier/...
\* valid_mask of line 1071: the cell is compared untrimmed.
ValidMask(row) == row.on # <<>> /\ row.on # NanText

\* line 1019: the count that decides "no valid order numbers".
NonEmptyCount(rows) ==
    Cardinality({i \in 1..Len(rows) :
        rows[i].on # <<>> /\ rows[i].on # NanText /\ Strip(rows[i].on) # <<>>})

\* The aggregation without unique(): every non-empty cell is joined.
AggregateSkusKeepAll(rows) ==
    LET cells == [i \in 1..Len(rows) |-> rows[i].sku]
    IN  SelectSeq(cells, LAMBDA c : c # "")

\* aggregate_skus (lines 1105-1108) over the rows of one group.
AggregateSkus(rows) ==
    LET cells == [i \in 1..Len(rows) |-> rows[i].sku]
        kept  == SelectSeq(cells, LAMBDA c : c # "")
    IN  Unique(kept)

GroupRows(rows, key) == SelectSeq(rows, LAMBDA r : Strip(r.on) = key)

\* line 1102: the SKU cells read; '' for every row when the file has no
\* SKU column.
Cells(file) ==
    IF file.sku_col THEN file.rows
    ELSE [i \in 1..Len(file.rows) |-> [file.rows[i] EXCEPT !.sku = ""]]

\* lines 1071-1139: valid rows, grouped by the trimmed order number; the
\* groups come out in sorted key order; 'first' for the scalar fields.
NormalizeBackground(rows) ==
    LET valid == SelectSeq(rows, ValidMask)
        keys  == SortedSeq({Strip(valid[i].on) : i \in 1..Len(valid)})
    IN  [k \in 1..Len(keys) |->
            LET grp == GroupRows(valid, keys[k])
            IN  [OrderNumber |-> keys[k],
                 OrderStatus |-> grp[1].st,
                 ItemId      |-> AggregateSkus(grp)]]

\* ------------------------------------------------- environment and inputs
Tasks == {"t1", "t2"}

A == <<"a">>
B == <<"b">>

Row(on, sku, st) == [on |-> on, sku |-> sku, st |-> st]

\* The spec's example (two rows for one order, one row for another), a
\* single-order sheet, a sheet with a whitespace-only order-number cell and
\* a sheet with no order number at all.
SheetTwoOrders  == <<Row(A, "s1", "x"), Row(A, "s2", "x"), Row(B, "s1", "y")>>
SheetOneOrder   == <<Row(B, "s2", "x")>>
SheetOtherOrder == <<Row(A, "s1", "y")>>
SheetWhitespace == <<Row(<<" ">>, "s1", "x"), Row(A, "s1", "x")>>
SheetNoOrders   == <<Row(<<>>, "s1", "x")>>
\* One order on four rows: its scalar cell changes after the first row, one
\* SKU cell is empty and one SKU is repeated.
SheetRepeatedItems ==
    <<Row(A, "s1", "x"), Row(A, "", "y"), Row(A, "s1", "y"), Row(A, "s2", "y")>>

\* An uploaded file: whether parse_filename matches its name, whether the
\* name ends in .xlsx/.csv, the sales channel of the name, whether a
\* required column is missing, and its rows.
GoodFile(rows) ==
    [fname |-> "ok", ext_ok |-> TRUE, channel |-> "SHOPEE", missing |-> FALSE,
     sku_col |-> TRUE, rows |-> rows]

\* A Tokopedia export: the mapping of that marketplace has no date column
\* and no SKU column (lines 1478-1488).
TokopediaFile ==
    [GoodFile(SheetOneOrder) EXCEPT !.channel = "TOKOPEDIA", !.sku_col = FALSE]

ValidFiles == {GoodFile(SheetTwoOrders), GoodFile(SheetOneOrder),
               GoodFile(SheetOtherOrder), GoodFile(SheetWhitespace),
               GoodFile(SheetRepeatedItems), TokopediaFile}

InvalidFiles ==
    {[GoodFile(SheetOneOrder) EXCEPT !.fname = "nomatch"],
     [GoodFile(SheetOneOrder) EXCEPT !.ext_ok = FALSE],
     [GoodFile(SheetOneOrder) EXCEPT !.channel = "UNKNOWN"],
     [GoodFile(SheetOneOrder) EXCEPT !.missing = TRUE],
     GoodFile(SheetNoOrders)}

UploadFiles == ValidFiles \cup InvalidFiles

\* No second upload is submitted.
NoFile == [GoodFile(<<>>) EXCEPT !.fname = "none"]

\* The background uploads of one behaviour: any single file, or two files
\* that share an order number.
Uploads ==
    {<<f, NoFile>> : f \in UploadFiles}
    \cup {<<GoodFile(SheetOneOrder), GoodFile(SheetOneOrder)>>,
          <<GoodFile(SheetOtherOrder), GoodFile(SheetOtherOrder)>>,
          <<GoodFile(SheetTwoOrders), GoodFile(SheetOneOrder)>>}

\* Files sent to the synchronous endpoint: a Zalora sheet (the mapping has
\* no sku_field), a Tokopedia sheet (sku_field is None) and a Shopee sheet
\* with its SKU column; SyncUploads adds a Shopee sheet that lacks it.
SyncFile(channel, rows) ==
    [GoodFile(rows) EXCEPT !.channel = channel, !.sku_col = (channel = "SHOPEE")]

SyncUploads ==
    {<<SyncFile(c, SheetOneOrder), NoFile>> : c \in {"ZALORA", "TOKOPEDIA", "SHOPEE"}}
    \cup {<<[SyncFile("SHOPEE", SheetOneOrder) EXCEPT !.sku_col = FALSE], NoFile>>,
          <<SyncFile("ZALORA", SheetTwoOrders), NoFile>>,
          <<SyncFile("ZALORA", SheetWhitespace), NoFile>>,
          <<SyncFile("ZALORA", SheetOneOrder), SyncFile("ZALORA", SheetOtherOrder)>>,
          <<SyncFile("ZALORA", SheetOneOrder), SyncFile("ZALORA", SheetTwoOrders)>>}

\* The background uploads that accompany synchronous ones.
UploadsWithSync == {<<NoFile, NoFile>>, <<GoodFile(SheetOneOrder), NoFile>>}

\* The synchronous uploads that run next to a background upload.
SyncUploadsWithBackground == {<<SyncFile("ZALORA", SheetOneOrder), NoFile>>}

\* Files sent both to the background endpoint and to the synchronous one:
\* a sheet of a marketplace without SKU column whose order has several
\* rows, and a sheet with its SKU column.
FilesSentToBoth ==
    {SyncFile("ZALORA", SheetRepeatedItems), SyncFile("SHOPEE", SheetOneOrder)}

\* One behaviour's uploads: background ones alone, or synchronous ones
\* with at most one background upload.  All are of one user, brand and
\* batch.
Scenarios ==
    {<<u, <<NoFile, NoFile>>>> : u \in Uploads}
    \cup {<<<<f, NoFile>>, <<f, NoFile>>>> : f \in FilesSentToBoth}
    \cup {<<<<NoFile, NoFile>>, s>> : s \in SyncUploads}
    \cup {<<u, s>> : u \in UploadsWithSync \ {<<NoFile, NoFile>>},
                     s \in SyncUploadsWithBackground}

\* The external order-fulfilment system: per order number, whether the
\* order is absent, found in SalesOrder only, or also joined to ord_line.
External(o) == IF o = A THEN "interfaced" ELSE "absent"

\* ----------------------------------------------------------- reconciler
EmptyDict == [o \in {} |-> None]

\* The marker of a key that a result dict does not hold.
NoKey == "<no key>"

\* dict.get(key, default)
Get(value, default) == IF value = NoKey THEN default ELSE value

\* check_external_database_status: one row per order found (lines
\* 2587-2605); an empty dict when the connection fails (lines 2552-2553).
check_external_database_status(order_numbers, connected) ==
    IF ~connected THEN EmptyDict
    ELSE [o \in {x \in Range(order_numbers) : External(x) # "absent"} |->
            [system_ref_id    |-> "ref",
             order_status     |-> "shipped",
             item_id_flexo    |-> <<"f1">>,
             interface_status |->
                IF External(o) = "interfaced" THEN "Interface"
                ELSE "Not Yet Interface"]]

\* check_interface_status (lines 2697-2741): an entry for every order asked
\* about; the entry of an order that was not found has no order_status key.
check_interface_status(order_numbers, connected) ==
    LET external_results == check_external_database_status(order_numbers, connected)
    IN  [o \in Range(order_numbers) |->
            IF o \in DOMAIN external_results
            THEN [status            |-> external_results[o].interface_status,
                  system_ref_id     |-> external_results[o].system_ref_id,
                  order_status      |-> external_results[o].order_status,
                  item_id_flexo     |-> external_results[o].item_id_flexo,
                  found_in_external |-> TRUE]
            ELSE [status            |-> "Not Yet Interface",
                  system_ref_id     |-> None,
                  order_status      |-> NoKey,
                  item_id_flexo     |-> <<>>,
                  found_in_external |-> FALSE]]

\* dict.update
Update(old, new) == new @@ old

\* lines 1170-1180: the order numbers sent out (empty ones are skipped) and
\* the chunk that iteration k of the loop sends.
OrderNumbersList(all_order_data) ==
    LET nums == [k \in 1..Len(all_order_data) |-> all_order_data[k].OrderNumber]
    IN  SelectSeq(nums, LAMBDA o : o # <<>>)

\* The loop bound computed by floor division: a last, partial chunk and
\* the only chunk of a short list are not sent.
TotalChunksFloor(all_order_data) ==
    (Len(OrderNumbersList(all_order_data)) - 1) \div EXTERNAL_CHUNK_SIZE

TotalChunks(all_order_data) ==
    (Len(OrderNumbersList(all_order_data)) + EXTERNAL_CHUNK_SIZE - 1)
        \div EXTERNAL_CHUNK_SIZE

Chunk(all_order_data, k) ==
    LET list == OrderNumbersList(all_order_data)
        from == (k - 1) * EXTERNAL_CHUNK_SIZE + 1
        to   == IF k * EXTERNAL_CHUNK_SIZE < Len(list)
                THEN k * EXTERNAL_CHUNK_SIZE ELSE Len(list)
    IN  SubSeq(list, from, to)

\* ----------------------------------------------------------- upsert engine
\* The assignment with the status comparison inverted.
AssignInterfaceInverted(order_number, interface_results) ==
    IF order_number \in DOMAIN interface_results
    THEN LET r == interface_results[order_number]
         IN  [InterfaceStatus  |-> IF r.status # "Interface" THEN "Interface"
                                   ELSE "Not Yet Interface",
              OrderNumberFlexo |-> Get(r.system_ref_id, ""),
              OrderStatusFlexo |-> Get(r.order_status, ""),
              ItemIdFlexo      |-> r.item_id_flexo,
              recon            |-> IF r.found_in_external THEN "found"
                                   ELSE "notfound",
              late             |-> r.late]
    ELSE [InterfaceStatus  |-> "Not Yet Interface",
          OrderNumberFlexo |-> "",
          OrderStatusFlexo |-> "",
          ItemIdFlexo      |-> <<>>,
          recon            |-> "noresult",
          late             |-> FALSE]

\* lines 1258-1276: the interface fields of one order.  The tag "recon" is
\* bookkeeping of the model: how the order's chunk ended.
AssignInterface(order_number, interface_results) ==
    IF order_number \in DOMAIN interface_results
    THEN LET r == interface_results[order_number]
         IN  [InterfaceStatus  |-> IF r.status = "Interface" THEN "Interface"
                                   ELSE "Not Yet Interface",
              OrderNumberFlexo |-> Get(r.system_ref_id, ""),
              OrderStatusFlexo |-> Get(r.order_status, ""),
              ItemIdFlexo      |-> r.item_id_flexo,
              recon            |-> IF r.found_in_external THEN "found"
                                   ELSE "notfound",
              late             |-> r.late]
    ELSE [InterfaceStatus  |-> "Not Yet Interface",
          OrderNumberFlexo |-> "",
          OrderStatusFlexo |-> "",
          ItemIdFlexo      |-> <<>>,
          recon            |-> "noresult",
          late             |-> FALSE]

\* "x or ''" of lines 1331-1332
OrEmpty(v) == IF v = None THEN "" ELSE v

\* The table without its unique constraint.
UniqueViolationOff(rows, order_number) == FALSE

\* The unique constraint on OrderNumber (line 398).
UniqueViolation(rows, order_number) ==
    \E r \in rows : r.OrderNumber = order_number

\* ------------------------------------------------ process_upload_background
Syncs == {"s1", "s2"}

\* The orderlist files on disk, by path; a file that does not exist; the
\* path of a run that resolved none.
NoFiles == [p \in {} |-> None]

Missing == [exists |-> FALSE, lines |-> <<>>, readonly |-> FALSE]

\* get_shop_id_from_brand_shops (lines 1720-1774) returns shop_key_1 of the
\* brand's row for the marketplace, or None when there is no row or the key
\* is empty; the empty text stands for None.
NoShopId == <<>>

ShopIds == {NoShopId, <<"k">>}

NoPath == <<>>

\* lines 2331-2341 and 2382: the folder of the downstream executable and
\* the file it reads, Orderlist.txt.
marketplace_configs(channel) ==
    IF channel \in {"SHOPEE", "LAZADA", "BLIBLI", "DESTY", "GINEE", "TIKTOK",
                    "ZALORA", "TOKOPEDIA", "JUBELIO"}
    THEN channel ELSE None

FixedOrderlist(folder) == <<folder, "fixed", "", 0>>

\* A marketplace folder that holds an Orderlist.txt from earlier use (the
\* upload pipeline itself never creates that file).
LegacyFiles(channel) ==
    FixedOrderlist(marketplace_configs(channel)) :>
        [exists |-> TRUE, lines |-> <<NanText>>, readonly |-> FALSE]

L(t) == loc[t]

SetLoc(t, new) == loc' = [loc EXCEPT ![t] = new]

\* raise: control passes to the except clause of line 1397 with str(e).
Raised(t, message) == [L(t) EXCEPT !.pc = "except", !.err = message]

InitLoc(file) ==
    [file |-> file, pc |-> IF file = NoFile THEN "absent" ELSE "pending", sess |-> "none", err |-> None,
     current_time |-> 0, all_order_data |-> <<>>,
     i |-> 0, cell |-> EmptyDict, timeout_occurred |-> FALSE,
     expired |-> {}, interface_results |-> EmptyDict, calls |-> 0,
     to_insert |-> <<>>, to_update |-> <<>>, new_count |-> 0,
     replaced_count |-> 0, fi |-> 0, failed_orders |-> {},
     after |-> {}, snapshot |-> {}]

\* The state of one request to upload_file.
InitGen(file) ==
    [file |-> file, pc |-> IF file = NoFile THEN "absent" ELSE "received",
     uploaded_orders |-> {}, ran |-> FALSE, orderlist_path |-> NoPath,
     order_count |-> 0, overlap |-> {}, verification_result |-> TRUE,
     left |-> Missing, success |-> FALSE,
     shop_id |-> NoShopId, shop_id_warning |-> FALSE, wrote |-> <<>>,
     consumer |-> "idle", all_order_data |-> <<>>]

\* upload_file_background (lines 3752-3763): the task row of a submitted
\* upload is created pending.
InitTask(file) ==
    [status |-> IF file = NoFile THEN "absent" ELSE "pending",
     error_message |-> None, total_orders |-> 0]

\* ------------------------------------------- multi_user_handler.py: state
\* The users that upload and the request threads that call the handler.
Users == {"u1", "u2"}
Callers == {"c1", "c2"}

\* The seconds the clock runs through and the uploads queued in one run.
MaxTime == 2
MaxUploads == 2

\* line 90: f"upload_{user_id}_{int(time.time())}"
TaskId(user_id, second) == <<user_id, second>>

\* get_upload_status's None, and the worker's upload_task before its first
\* pop.
NoTask == <<>>
NoUpload == [task_id |-> TaskId("", 0), user_id |-> "", status |-> "none"]

\* lines 93-100: the dict appended to upload_queue (filename, file_data and
\* created_at are carried along and never read by the handler).
Upload(task_id, user_id) ==
    [task_id |-> task_id, user_id |-> user_id, status |-> "queued"]

\* A request thread that is in no handler call.
IdleCall ==
    [pc |-> "idle", op |-> "none", user_id |-> "", task_id |-> TaskId("", 0),
     result |-> <<>>]

\* lines 12-16 and 174-185: the handler as constructed, with its worker
\* thread started at import.
InitHandler ==
    /\ upload_queue = <<>>
    /\ processing_queue = <<>>
    /\ user_workspaces = {}
    /\ lock = "free"
    /\ unix_time = 1
    /\ worker = [pc |-> "top", upload_task |-> NoUpload]
    /\ calls = [c \in Callers |-> IdleCall]
    /\ issued = <<>>
    /\ processed = <<>>

Init ==
    /\ InitHandler
    /\ \E sc \in Scenarios :
        /\ loc = [t \in Tasks |-> InitLoc(IF t = "t1" THEN sc[1][1] ELSE sc[1][2])]
        /\ gen = [u \in Syncs |-> InitGen(IF u = "s1" THEN sc[2][1] ELSE sc[2][2])]
    /\ tasks = [t \in Tasks |-> InitTask(loc[t].file)]
    /\ store = {}
    /\ nextId = 1
    /\ history = {}
    /\ clock = 1
    /\ faults = 0
    /\ thr = [t \in Tasks |-> <<>>]
    /\ fs \in {NoFiles} \cup {LegacyFiles(gen[u].file.channel) :
                                u \in {v \in Syncs : gen[v].file # NoFile}}

\* lines 905-912: open the session, set the task to processing, commit.
StartBackground(t) ==
    /\ L(t).pc = "pending"
    /\ tasks' = [tasks EXCEPT ![t].status = "processing"]
    /\ SetLoc(t, [L(t) EXCEPT !.pc = "validate", !.sess = "open",
                    !.after = {u \in Tasks : loc[u].pc = "done"}])
    /\ UNCHANGED handler
    /\ UNCHANGED <<store, nextId, history, clock, faults, thr, fs, gen>>

\* A commit that raises (the database reports an error): the session is
\* left in its failed state until rollback() is called.
CommitFails(t) ==
    /\ faults < MaxFaults
    /\ faults' = faults + 1
    /\ SetLoc(t, [Raised(t, "database error") EXCEPT !.sess = "failed"])

\* lines 918-953: parse the filename, read the file, look up the
\* marketplace mapping, read the clock.
ValidateFile(t) ==
    /\ L(t).pc = "validate"
    /\ IF L(t).file.fname # "ok"
       THEN SetLoc(t, Raised(t, "Invalid filename format")) /\ UNCHANGED clock
       ELSE IF ~L(t).file.ext_ok
       THEN SetLoc(t, Raised(t, "Unsupported file format")) /\ UNCHANGED clock
       ELSE IF L(t).file.channel = "UNKNOWN"
       THEN SetLoc(t, Raised(t, "Unsupported sales channel")) /\ UNCHANGED clock
       ELSE /\ SetLoc(t, [L(t) EXCEPT !.pc = "ingest", !.current_time = clock])
            /\ clock' = clock + 1
    /\ UNCHANGED handler
    /\ UNCHANGED <<tasks, store, nextId, history, faults, thr, fs, gen>>

\* The worker thread of a chunk is started (line 1206).
StartWorker(t) == thr' = [thr EXCEPT ![t] = Append(@, "running")]

\* lines 1187-1206 of iteration k: a fresh chunk_interface_results and
\* timeout event, the timer and the worker; past the last chunk the loop
\* ends, and its two variables, never read again, are forgotten.
EnterChunk(l, k) ==
    IF k > TotalChunks(l.all_order_data)
    THEN [l EXCEPT !.pc = "query", !.i = k, !.cell = EmptyDict,
            !.timeout_occurred = FALSE]
    ELSE [l EXCEPT !.pc = "join", !.i = k, !.cell = EmptyDict,
            !.timeout_occurred = FALSE, !.calls = @ + 1]

\* lines 956-1206: the upload history row is committed; then the required
\* columns and the order-number check (each sets the task failed, commits
\* and raises); for Tokopedia, whose order_date column is None, the read
\* valid_df[order_date_col] of line 1081 raises KeyError; then the
\* normalisation, and the first chunk is sent.
IngestAndNormalize(t) ==
    /\ L(t).pc = "ingest"
    /\ \/ /\ history' = history \cup {t}
          /\ UNCHANGED faults
          /\ IF L(t).file.missing
             THEN /\ tasks' = [tasks EXCEPT ![t].status = "failed",
                            ![t].error_message = "Missing required columns"]
                  /\ SetLoc(t, Raised(t, "Missing required columns"))
                  /\ UNCHANGED thr
             ELSE IF NonEmptyCount(L(t).file.rows) = 0
             THEN /\ tasks' = [tasks EXCEPT ![t].status = "failed",
                            ![t].error_message = "No valid order numbers found"]
                  /\ SetLoc(t, Raised(t, "No valid order numbers found"))
                  /\ UNCHANGED thr
             ELSE IF L(t).file.channel = "TOKOPEDIA"
             THEN /\ SetLoc(t, Raised(t, "KeyError"))
                  /\ UNCHANGED <<tasks, thr>>
             ELSE /\ SetLoc(t, EnterChunk([L(t) EXCEPT !.all_order_data =
                                    NormalizeBackground(Cells(L(t).file))], 1))
                  /\ StartWorker(t)
                  /\ UNCHANGED tasks
       \/ CommitFails(t) /\ UNCHANGED <<history, tasks, thr>>
    /\ UNCHANGED handler
    /\ UNCHANGED <<store, nextId, clock, fs, gen>>

\* The bookkeeping tag of a result: the chunk it answers and whether it
\* was produced after that chunk's wait had expired.
Tagged(results, k, late) ==
    [o \in DOMAIN results |->
        [status            |-> results[o].status,
         system_ref_id     |-> results[o].system_ref_id,
         order_status      |-> results[o].order_status,
         item_id_flexo     |-> results[o].item_id_flexo,
         found_in_external |-> results[o].found_in_external,
         chunk |-> k, late |-> late]]

\* check_with_timeout (lines 1190-1195) of the worker of chunk k returns:
\* it assigns the nonlocal chunk_interface_results, or the call raised
\* and nothing is assigned.  A worker that returns after the loop has ended
\* assigns a variable that is never read again; that step is left out.
WorkerReturn(t, k) ==
    /\ L(t).pc \in {"join", "merge"}
    /\ k \in DOMAIN thr[t]
    /\ thr[t][k] = "running"
    /\ thr' = [thr EXCEPT ![t][k] = "done"]
    /\ \/ \E connected \in BOOLEAN :
            SetLoc(t, [L(t) EXCEPT !.cell =
                Tagged(check_interface_status(Chunk(L(t).all_order_data, k),
                                              connected),
                       k, k \in L(t).expired)])
       \/ UNCHANGED loc
    /\ UNCHANGED handler
    /\ UNCHANGED <<tasks, store, nextId, history, clock, faults, fs, gen>>

\* timeout_handler (lines 1197-1198): the 30-second timer, armed at line
\* 1202, fires before timer.cancel() has run.
TimerFires(t) ==
    /\ L(t).pc = "join"
    /\ ~L(t).timeout_occurred
    /\ SetLoc(t, [L(t) EXCEPT !.timeout_occurred = TRUE])
    /\ UNCHANGED handler
    /\ UNCHANGED <<tasks, store, nextId, history, clock, faults, thr, fs, gen>>

\* lines 1209-1214: check_thread.join(timeout=30) returns, because the
\* worker has finished or because the wait has expired with the worker
\* still running; the timer is cancelled; a set timeout flag empties
\* chunk_interface_results.
JoinReturns(t) ==
    /\ L(t).pc = "join"
    /\ SetLoc(t, [L(t) EXCEPT !.pc = "merge",
            !.expired = IF thr[t][L(t).i] = "done" THEN @ ELSE @ \cup {L(t).i},
            !.cell = IF L(t).timeout_occurred THEN EmptyDict ELSE @])
    /\ UNCHANGED handler
    /\ UNCHANGED <<tasks, store, nextId, history, clock, faults, thr, fs, gen>>

\* line 1224: interface_results.update(chunk_interface_results); then the
\* next iteration starts (lines 1187-1206) or the loop ends.
MergeChunk(t) ==
    /\ L(t).pc = "merge"
    /\ SetLoc(t, EnterChunk([L(t) EXCEPT !.interface_results =
                                Update(@, L(t).cell)], L(t).i + 1))
    /\ IF L(t).i + 1 > TotalChunks(L(t).all_order_data)
       THEN UNCHANGED thr ELSE StartWorker(t)
    /\ UNCHANGED handler
    /\ UNCHANGED <<tasks, store, nextId, history, clock, faults, fs, gen>>

\* lines 1123-1138 and 1263-1276: the dictionary of one order, with its
\* interface fields.
OrderData(t, canonical, interface_results) ==
    LET a == AssignInterface(canonical.OrderNumber, interface_results)
    IN  [OrderNumber      |-> canonical.OrderNumber,
         OrderStatus      |-> canonical.OrderStatus,
         ItemId           |-> canonical.ItemId,
         UploadDate       |-> L(t).current_time,
         TaskId           |-> t,
         InterfaceStatus  |-> a.InterfaceStatus,
         OrderNumberFlexo |-> a.OrderNumberFlexo,
         OrderStatusFlexo |-> a.OrderStatusFlexo,
         ItemIdFlexo      |-> a.ItemIdFlexo,
         recon            |-> a.recon,
         late             |-> a.late]

\* A new row of uploaded_orders (bulk_insert_mappings, UploadedOrder(**d)).
NewRow(d, id) ==
    [Id |-> id, path |-> "insert",
     OrderNumber |-> d.OrderNumber, OrderStatus |-> d.OrderStatus,
     ItemId |-> d.ItemId, UploadDate |-> d.UploadDate, TaskId |-> d.TaskId,
     InterfaceStatus |-> d.InterfaceStatus,
     OrderNumberFlexo |-> d.OrderNumberFlexo,
     OrderStatusFlexo |-> d.OrderStatusFlexo,
     ItemIdFlexo |-> d.ItemIdFlexo, recon |-> d.recon, late |-> d.late]

\* An update that keeps the interface status the row already has.
UpdatedRowKeepingStatus(r, d) ==
    [Id |-> r.Id, path |-> "update",
     OrderNumber |-> r.OrderNumber, OrderStatus |-> d.OrderStatus,
     ItemId |-> d.ItemId, UploadDate |-> d.UploadDate, TaskId |-> d.TaskId,
     InterfaceStatus |-> r.InterfaceStatus,
     OrderNumberFlexo |-> OrEmpty(d.OrderNumberFlexo),
     OrderStatusFlexo |-> OrEmpty(d.OrderStatusFlexo),
     ItemIdFlexo |-> d.ItemIdFlexo, recon |-> d.recon, late |-> d.late]

\* lines 1317-1334: the fields an update assigns to the existing row.
UpdatedRow(r, d) ==
    [Id |-> r.Id, path |-> "update",
     OrderNumber |-> r.OrderNumber, OrderStatus |-> d.OrderStatus,
     ItemId |-> d.ItemId, UploadDate |-> d.UploadDate, TaskId |-> d.TaskId,
     InterfaceStatus |-> d.InterfaceStatus,
     OrderNumberFlexo |-> OrEmpty(d.OrderNumberFlexo),
     OrderStatusFlexo |-> OrEmpty(d.OrderStatusFlexo),
     ItemIdFlexo |-> d.ItemIdFlexo, recon |-> d.recon, late |-> d.late]

\* lines 1237-1284: the existence query, then every order gets its
\* interface fields and goes to the insert-set or the update-set.
QueryAndClassify(t) ==
    /\ L(t).pc = "query"
    /\ LET data == [k \in 1..Len(L(t).all_order_data) |->
                        OrderData(t, L(t).all_order_data[k], L(t).interface_results)]
           existing == {r \in store : r.OrderNumber \in
                            {data[k].OrderNumber : k \in 1..Len(data)}}
           Stored(o) == \E r \in existing : r.OrderNumber = o
           IdOf(o) == (CHOOSE r \in existing : r.OrderNumber = o).Id
           ins == SelectSeq(data, LAMBDA d : ~Stored(d.OrderNumber))
           upd == SelectSeq(data, LAMBDA d : Stored(d.OrderNumber))
       IN  SetLoc(t, [L(t) EXCEPT !.pc = "insert",
                !.to_insert = ins,
                !.to_update = [k \in 1..Len(upd) |->
                                  [id |-> IdOf(upd[k].OrderNumber), data |-> upd[k]]],
                !.new_count = Len(ins),
                !.replaced_count = Len(upd)])
    /\ UNCHANGED handler
    /\ UNCHANGED <<tasks, store, nextId, history, clock, faults, thr, fs, gen>>

\* lines 1288-1295: the bulk insert and its commit; on a uniqueness
\* violation the transaction is rolled back and the fallback starts.
BulkInsert(t) ==
    /\ L(t).pc = "insert"
    /\ LET ins == L(t).to_insert
       IN  IF ins = <<>>
           THEN SetLoc(t, [L(t) EXCEPT !.pc = "update"])
                /\ UNCHANGED <<store, nextId>>
           ELSE IF \E k \in 1..Len(ins) : UniqueViolation(store, ins[k].OrderNumber)
           THEN SetLoc(t, [L(t) EXCEPT !.pc = "fallback", !.fi = 1])
                /\ UNCHANGED <<store, nextId>>
           ELSE /\ store' = store \cup
                        {NewRow(ins[k], nextId + k - 1) : k \in 1..Len(ins)}
                /\ nextId' = nextId + Len(ins)
                /\ SetLoc(t, [L(t) EXCEPT !.pc = "update"])
    /\ UNCHANGED handler
    /\ UNCHANGED <<tasks, history, clock, faults, thr, fs, gen>>

\* The fallback without its per-row try: a row that violates the
\* constraint raises out of the loop.
FallbackInsertAborting(t) ==
    /\ L(t).pc = "fallback"
    /\ LET d    == L(t).to_insert[L(t).fi]
           next == IF L(t).fi = Len(L(t).to_insert) THEN "update" ELSE "fallback"
       IN  IF UniqueViolation(store, d.OrderNumber)
           THEN /\ SetLoc(t, Raised(t, "IntegrityError"))
                /\ UNCHANGED <<store, nextId>>
           ELSE /\ store' = store \cup {NewRow(d, nextId)}
                /\ nextId' = nextId + 1
                /\ SetLoc(t, [L(t) EXCEPT !.pc = next, !.fi = @ + 1])
    /\ UNCHANGED handler
    /\ UNCHANGED <<tasks, history, clock, faults, thr, fs, gen>>

\* lines 1298-1307: one row of the fallback, committed on its own; a row
\* that violates the constraint is rolled back and recorded as failed.
FallbackInsert(t) ==
    /\ L(t).pc = "fallback"
    /\ LET d    == L(t).to_insert[L(t).fi]
           next == IF L(t).fi = Len(L(t).to_insert) THEN "update" ELSE "fallback"
       IN  IF UniqueViolation(store, d.OrderNumber)
           THEN /\ SetLoc(t, [L(t) EXCEPT !.pc = next, !.fi = @ + 1,
                        !.failed_orders = @ \cup {d.OrderNumber}])
                /\ UNCHANGED <<store, nextId>>
           ELSE /\ store' = store \cup {NewRow(d, nextId)}
                /\ nextId' = nextId + 1
                /\ SetLoc(t, [L(t) EXCEPT !.pc = next, !.fi = @ + 1])
    /\ UNCHANGED handler
    /\ UNCHANGED <<tasks, history, clock, faults, thr, fs, gen>>

\* lines 1316-1338: the update-set is written to the rows read by the
\* existence query, and everything is committed.
UpdateAndCommit(t) ==
    /\ L(t).pc = "update"
    /\ \/ LET upd == L(t).to_update
              Hit(r) == \E k \in 1..Len(upd) : upd[k].id = r.Id
              DataOf(r) == upd[CHOOSE k \in 1..Len(upd) : upd[k].id = r.Id].data
              after == {IF Hit(r) THEN UpdatedRow(r, DataOf(r)) ELSE r : r \in store}
          IN  /\ store' = after
              /\ SetLoc(t, [L(t) EXCEPT !.pc = "complete", !.snapshot = after])
              /\ UNCHANGED faults
       \/ CommitFails(t) /\ UNCHANGED store
    /\ UNCHANGED handler
    /\ UNCHANGED <<tasks, nextId, history, clock, thr, fs, gen>>

\* lines 1346-1382: the rows owned by the task are counted and the task is
\* set to completed.
Complete(t) ==
    /\ L(t).pc = "complete"
    /\ \/ /\ tasks' = [tasks EXCEPT ![t].status = "completed",
                ![t].total_orders = Cardinality({r \in store : r.TaskId = t})]
          /\ SetLoc(t, [L(t) EXCEPT !.pc = "finally"])
          /\ UNCHANGED faults
       \/ CommitFails(t) /\ UNCHANGED tasks
    /\ UNCHANGED handler
    /\ UNCHANGED <<store, nextId, history, clock, thr, fs, gen>>

\* A failure handler that puts the task back in the queue.
ExceptHandlerRequeue(t) ==
    /\ L(t).pc = "except"
    /\ IF L(t).sess = "failed"
       THEN UNCHANGED tasks
       ELSE tasks' = [tasks EXCEPT ![t].status = "pending",
                                   ![t].error_message = L(t).err]
    /\ SetLoc(t, [L(t) EXCEPT !.pc = "finally"])
    /\ UNCHANGED handler
    /\ UNCHANGED <<store, nextId, history, clock, faults, thr, fs, gen>>

\* lines 1397-1409: the failure handler sets the task failed and commits;
\* on a session in its failed state that commit raises, nothing is
\* written and the exception leaves the function.
ExceptHandler(t) ==
    /\ L(t).pc = "except"
    /\ IF L(t).sess = "failed"
       THEN UNCHANGED tasks
       ELSE tasks' = [tasks EXCEPT ![t].status = "failed",
                                   ![t].error_message = L(t).err]
    /\ SetLoc(t, [L(t) EXCEPT !.pc = "finally"])
    /\ UNCHANGED handler
    /\ UNCHANGED <<store, nextId, history, clock, faults, thr, fs, gen>>

\* A function that closes the session on its success path only.
FinallyOnSuccessOnly(t) ==
    /\ L(t).pc = "finally"
    /\ SetLoc(t, [L(t) EXCEPT !.pc = "done",
                    !.sess = IF L(t).err = None THEN "closed" ELSE @])
    /\ UNCHANGED handler
    /\ UNCHANGED <<tasks, store, nextId, history, clock, faults, thr, fs, gen>>

\* lines 1411-1417: the session is closed.
Finally(t) ==
    /\ L(t).pc = "finally"
    /\ SetLoc(t, [L(t) EXCEPT !.pc = "done", !.sess = "closed"])
    /\ UNCHANGED handler
    /\ UNCHANGED <<tasks, store, nextId, history, clock, faults, thr, fs, gen>>

\* ------------------------------------------------------------- upload_file
G(u) == gen[u]

\* line 3410: the rows the grouping loop skips.
SyncSkips(row) == Strip(row.on) = <<>> \/ Strip(row.on) = NanText

\* lines 3426-3435: with a SKU column, the first kept row that has a SKU
\* reads existing_order before any assignment to it (UnboundLocalError).
GroupSyncRaises(file) ==
    /\ file.sku_col
    /\ \E i \in 1..Len(file.rows) :
            ~SyncSkips(file.rows[i]) /\ file.rows[i].sku # ""

\* lines 3406-3461: without a SKU column every kept row (re)creates the
\* entry of its order number, so the last row's fields stay, in the order
\* of first appearance; with a SKU column the else branch of line 3436 is
\* never taken and no entry is created.
GroupSync(file) ==
    IF file.sku_col THEN <<>>
    ELSE LET kept == SelectSeq(file.rows, LAMBDA r : ~SyncSkips(r))
             keys == Unique([i \in 1..Len(kept) |-> Strip(kept[i].on)])
         IN  [k \in 1..Len(keys) |->
                LET grp == GroupRows(kept, keys[k])
                IN  [OrderNumber |-> keys[k],
                     OrderStatus |-> grp[Len(grp)].st,
                     ItemId      |-> <<>>]]

\* lines 3539-3558: the interface fields of one order; an empty foreign
\* order number is stored as ''.
AssignInterfaceSync(order_number, interface_results) ==
    IF order_number \in DOMAIN interface_results
    THEN LET r == interface_results[order_number]
         IN  [InterfaceStatus  |-> IF r.status = "Interface" THEN "Interface"
                                   ELSE "Not Yet Interface",
              OrderNumberFlexo |-> OrEmpty(Get(r.system_ref_id, "")),
              OrderStatusFlexo |-> Get(r.order_status, ""),
              ItemIdFlexo      |-> r.item_id_flexo,
              recon            |-> IF r.found_in_external THEN "found"
                                   ELSE "notfound",
              late             |-> FALSE]
    ELSE [InterfaceStatus  |-> "Not Yet Interface",
          OrderNumberFlexo |-> "",
          OrderStatusFlexo |-> "",
          ItemIdFlexo      |-> <<>>,
          recon            |-> "noresult",
          late             |-> FALSE]

\* lines 3443-3458 with 3539-3558: the dictionary of one order.
OrderDataSync(u, canonical, interface_results, current_time) ==
    LET a == AssignInterfaceSync(canonical.OrderNumber, interface_results)
    IN  [OrderNumber      |-> canonical.OrderNumber,
         OrderStatus      |-> canonical.OrderStatus,
         ItemId           |-> canonical.ItemId,
         UploadDate       |-> current_time,
         TaskId           |-> u,
         InterfaceStatus  |-> a.InterfaceStatus,
         OrderNumberFlexo |-> a.OrderNumberFlexo,
         OrderStatusFlexo |-> a.OrderStatusFlexo,
         ItemIdFlexo      |-> a.ItemIdFlexo,
         recon            |-> a.recon,
         late             |-> a.late]

\* lines 3476-3494: one call for all the order numbers; an exception gives
\* no result at all.
SyncAnswers(order_numbers) ==
    IF order_numbers = <<>> THEN {EmptyDict}
    ELSE {check_interface_status(order_numbers, TRUE),
          check_interface_status(order_numbers, FALSE),
          EmptyDict}

\* upload_file up to line 3627 (the request was validated by
\* validate_upload_request): the history row, the grouping, the external
\* check, the inserts and updates and their commit, and the query of this
\* upload's rows.  The handler is taken in one step up to here.
upload_file(u) ==
    /\ G(u).pc = "received"
    /\ history' = history \cup {u}
    /\ clock' = clock + 1
    /\ IF GroupSyncRaises(G(u).file)
       THEN /\ gen' = [gen EXCEPT ![u].pc = "failed"]
            /\ UNCHANGED <<store, nextId>>
       ELSE \E interface_results \in
                    SyncAnswers(OrderNumbersList(GroupSync(G(u).file))) :
            LET all_order_data == GroupSync(G(u).file)
                data == [k \in 1..Len(all_order_data) |->
                            OrderDataSync(u, all_order_data[k], interface_results, clock)]
                ins  == SelectSeq(data, LAMBDA d : ~UniqueViolation(store, d.OrderNumber))
                upd  == SelectSeq(data, LAMBDA d : UniqueViolation(store, d.OrderNumber))
                kept == {r \in store : \A k \in 1..Len(upd) :
                                            upd[k].OrderNumber # r.OrderNumber}
                saved == kept
                         \cup {NewRow(ins[k], nextId + k - 1) : k \in 1..Len(ins)}
                         \cup {UpdatedRow(CHOOSE r \in store :
                                    r.OrderNumber = upd[k].OrderNumber, upd[k]) :
                               k \in 1..Len(upd)}
                uploaded_orders == {r \in saved : r.TaskId = u}
                not_interface_count ==
                    Cardinality({r \in uploaded_orders : r.InterfaceStatus # "Interface"})
            IN  /\ store' = saved
                /\ nextId' = nextId + Len(ins)
                /\ gen' = [gen EXCEPT ![u].uploaded_orders = uploaded_orders,
                                      ![u].all_order_data = all_order_data,
                                      ![u].pc = IF not_interface_count > 0
                                                THEN "saved" ELSE "done"]
    /\ UNCHANGED handler
    /\ UNCHANGED <<tasks, faults, loc, thr, fs>>

\* lines 1787-1798
marketplace_folder_mapping(channel) ==
    IF channel \in {"SHOPEE", "LAZADA", "BLIBLI", "DESTY", "GINEE", "TIKTOK",
                    "ZALORA", "JUBELIO"}
    THEN channel ELSE None

\* lines 1848-1852: the newest task row of this user, brand and batch
\* (t1 is created before t2).
LatestTask ==
    IF tasks["t2"].status # "absent" THEN "t2"
    ELSE IF tasks["t1"].status # "absent" THEN "t1"
    ELSE None

\* lines 1854-1868: the file is named after that task, or after the
\* current second when there is none.
OrderlistPath(folder, task, now) ==
    IF task # None THEN <<folder, "task", task, 0>>
    ELSE <<folder, "time", "", now \div TicksPerSecond>>

RECURSIVE RowsById(_)
RowsById(rows) ==
    IF rows = {} THEN <<>>
    ELSE LET m == CHOOSE r \in rows : \A q \in rows : r.Id <= q.Id
         IN  <<m>> \o RowsById(rows \ {m})

\* A writer that appends the shop key for every marketplace.
FormatLineAlwaysKeyed(channel, order_number, shop_id) ==
    IF shop_id # NoShopId
    THEN order_number \o <<",">> \o shop_id
    ELSE order_number

\* lines 1876-1884: one line of the file (without its newline).
FormatLine(channel, order_number, shop_id) ==
    IF channel \in {"ZALORA", "BLIBLI"} /\ shop_id # NoShopId
    THEN order_number \o <<",">> \o shop_id
    ELSE order_number

\* line 1871: the order numbers written, one line each (lines 1874-1884).
OrderlistLines(not_interfaced_orders, channel, shop_id) ==
    LET listed == RowsById(not_interfaced_orders)
        nums   == [k \in 1..Len(listed) |-> listed[k].OrderNumber]
        order_numbers == SelectSeq(nums, LAMBDA o : o # <<>>)
    IN  [k \in 1..Len(order_numbers) |->
            FormatLine(channel, order_numbers[k], shop_id)]

\* verify_and_restore_orderlist called with backup_path None: a missing
\* file or a count mismatch reaches os.path.exists(None), which raises, and
\* the handler of line 1992 returns False; the file is never changed.
verify_and_restore_orderlist(file, expected_count) ==
    file.exists /\ Len(file.lines) = expected_count

\* generate_orderlist_for_not_interfaced up to its write (lines 1776-1884),
\* called at line 3684.  Opening a read-only file for writing fails unless
\* the process is allowed to override the mode (a privileged POSIX user);
\* the except of line 1930 then returns with the file as it was.  A write
\* keeps the mode of a file that exists.  overlap records the requests
\* that are between their commit and the end of their own orderlist run,
\* wrote the lines this run wrote.
GenerateOrderlist(u) ==
    /\ G(u).pc = "saved"
    /\ \E shop_id \in ShopIds :
       LET not_interfaced_orders ==
                {r \in G(u).uploaded_orders : r.InterfaceStatus = "Not Yet Interface"}
           folder == marketplace_folder_mapping(G(u).file.channel)
           path   == OrderlistPath(folder, LatestTask, clock)
           lines  == OrderlistLines(not_interfaced_orders, G(u).file.channel, shop_id)
           before == IF path \in DOMAIN fs THEN fs[path] ELSE Missing
           written == [exists |-> TRUE, lines |-> lines, readonly |-> before.readonly]
           others == {v \in Syncs \ {u} : G(v).pc \in {"saved", "written"}}
       IN  IF not_interfaced_orders = {} \/ folder = None
           THEN /\ gen' = [gen EXCEPT ![u].pc = "done", ![u].ran = TRUE]
                /\ fs' = fs
           ELSE \/ /\ before.exists /\ before.readonly
                   /\ gen' = [gen EXCEPT ![u].pc = "done", ![u].ran = TRUE,
                                  ![u].overlap = others, ![u].shop_id = shop_id,
                                  ![u].orderlist_path = path, ![u].left = before]
                   /\ fs' = fs
                \/ /\ fs' = (path :> written) @@ fs
                   /\ gen' = [gen EXCEPT ![u].pc = "written", ![u].ran = TRUE,
                                  ![u].overlap = others, ![u].shop_id = shop_id,
                                  ![u].orderlist_path = path,
                                  ![u].order_count = Len(lines),
                                  ![u].wrote = lines]
    /\ UNCHANGED handler
    /\ UNCHANGED <<tasks, store, nextId, history, clock, faults, loc, thr>>

\* A writer that lets a failed verification raise.
VerifyAndProtectRaising(u) ==
    /\ G(u).pc = "written"
    /\ LET path == G(u).orderlist_path
           protected == [fs[path] EXCEPT !.readonly = TRUE]
           verified == verify_and_restore_orderlist(fs[path], G(u).order_count)
       IN  IF verified
           THEN /\ fs' = [fs EXCEPT ![path] = protected]
                /\ gen' = [gen EXCEPT ![u].pc = "done", ![u].left = protected,
                               ![u].success = TRUE,
                               ![u].shop_id_warning = (G(u).shop_id = NoShopId)]
           ELSE /\ fs' = fs
                /\ gen' = [gen EXCEPT ![u].pc = "failed",
                               ![u].verification_result = FALSE]
    /\ UNCHANGED handler
    /\ UNCHANGED <<tasks, store, nextId, history, clock, faults, loc, thr>>

\* The rest of generate_orderlist_for_not_interfaced (lines 1899-1928): a
\* failed verification is only reported, the file is made read-only and
\* the function returns success, with shop_id_warning when no shop key
\* was found (lines 1805-1813).
VerifyAndProtect(u) ==
    /\ G(u).pc = "written"
    /\ LET path == G(u).orderlist_path
           protected == [fs[path] EXCEPT !.readonly = TRUE]
       IN  /\ fs' = [fs EXCEPT ![path] = protected]
           /\ gen' = [gen EXCEPT ![u].pc = "done",
                          ![u].verification_result =
                              verify_and_restore_orderlist(fs[path], G(u).order_count),
                          ![u].left = protected,
                          ![u].success = TRUE,
                          ![u].shop_id_warning = (G(u).shop_id = NoShopId)]
    /\ UNCHANGED handler
    /\ UNCHANGED <<tasks, store, nextId, history, clock, faults, loc, thr>>

\* lines 3690-3701 with auto_run_marketplace_app (lines 2324-2509), the
\* executable being installed: either AUTO_RUN_MARKETPLACE_APPS is off, or
\* the consumer run is prepared on Orderlist.txt of the marketplace folder.
\* Without that file nothing is started.  With it, the newest
\* Orderlist_*.txt of the folder (any of them here, file times are not
\* kept) is the reference: on a different line count it is copied over
\* Orderlist.txt; Orderlist.txt is made writable (0o644) and, unless it
\* is empty, the executable is started.
auto_run_marketplace_app(u) ==
    /\ G(u).pc = "done" /\ G(u).ran /\ G(u).consumer = "idle"
    /\ \/ /\ gen' = [gen EXCEPT ![u].consumer = "disabled"]
          /\ fs' = fs
       \/ LET folder == marketplace_configs(G(u).file.channel)
              orderlist_path == FixedOrderlist(folder)
              backup_files == {q \in DOMAIN fs : q[1] = folder /\ q[2] # "fixed"}
          IN  IF orderlist_path \notin DOMAIN fs
              THEN /\ gen' = [gen EXCEPT ![u].consumer = "skipped"]
                   /\ fs' = fs
              ELSE \E latest_backup \in
                        IF backup_files = {} THEN {orderlist_path} ELSE backup_files :
                   LET lines == IF Len(fs[orderlist_path].lines)
                                        # Len(fs[latest_backup].lines)
                                THEN fs[latest_backup].lines
                                ELSE fs[orderlist_path].lines
                   IN  /\ fs' = [fs EXCEPT ![orderlist_path] =
                                    [exists |-> TRUE, lines |-> lines,
                                     readonly |-> FALSE]]
                       /\ gen' = [gen EXCEPT ![u].consumer =
                                    IF lines = <<>> THEN "skipped" ELSE "started"]
    /\ UNCHANGED handler
    /\ UNCHANGED <<tasks, store, nextId, history, clock, faults, loc, thr>>

Next ==
    \/ \E u \in Syncs : upload_file(u) \/ GenerateOrderlist(u) \/ VerifyAndProtect(u)
                          \/ auto_run_marketplace_app(u)
    \/ \E t \in Tasks :
            \/ StartBackground(t)
            \/ ValidateFile(t)
            \/ IngestAndNormalize(t)
            \/ \E k \in 1..Len(thr[t]) : WorkerReturn(t, k)
            \/ TimerFires(t)
            \/ JoinReturns(t)
            \/ MergeChunk(t)
            \/ QueryAndClassify(t)
            \/ BulkInsert(t)
            \/ FallbackInsert(t)
            \/ UpdateAndCommit(t)
            \/ Complete(t)
            \/ ExceptHandler(t)
            \/ Finally(t)

Spec == Init /\ [][Next]_vars

\* ----------------------------------------- multi_user_handler.py: actions
Ops == {"add_to_upload_queue", "get_upload_status", "get_queue_status",
        "create_user_workspace"}

\* The calls to add_to_upload_queue that have computed their task id and
\* wait for the lock.
PendingAdds ==
    {c \in Callers : calls[c].pc = "waiting" /\ calls[c].op = "add_to_upload_queue"}

\* A request thread enters a handler method.  add_to_upload_queue computes
\* its task id on entry, before it takes the lock (line 90); the id asked
\* of get_upload_status is one add_to_upload_queue returned.
Request(c) ==
    /\ calls[c].pc = "idle"
    /\ \E op \in Ops :
         \E user_id \in IF op \in {"add_to_upload_queue", "create_user_workspace"}
                         THEN Users ELSE {""} :
         \E task_id \in IF op = "add_to_upload_queue" THEN {TaskId(user_id, unix_time)}
                         ELSE IF op = "get_upload_status" THEN Range(issued)
                         ELSE {TaskId("", 0)} :
            /\ op = "add_to_upload_queue"
                    => Len(issued) + Cardinality(PendingAdds) < MaxUploads
            /\ calls' = [calls EXCEPT ![c] =
                            [pc |-> "waiting", op |-> op, user_id |-> user_id,
                             task_id |-> task_id, result |-> <<>>]]
    /\ UNCHANGED <<upload_queue, processing_queue, user_workspaces, lock, unix_time,
                   worker, issued, processed>>
    /\ UNCHANGED pipeline

\* A call in method op that can take the lock.
Enters(c, op) ==
    /\ calls[c].pc = "waiting"
    /\ calls[c].op = op
    /\ lock = "free"

\* The call returns result; the lock is released on leaving the with block.
Returns(c, result) ==
    calls' = [calls EXCEPT ![c].pc = "idle", ![c].result = <<result>>]

\* lines 88-103
add_to_upload_queue(c) ==
    /\ Enters(c, "add_to_upload_queue")
    /\ upload_queue' = Append(upload_queue,
                              Upload(calls[c].task_id, calls[c].user_id))
    /\ issued' = Append(issued, calls[c].task_id)
    /\ Returns(c, calls[c].task_id)
    /\ UNCHANGED <<processing_queue, user_workspaces, lock, unix_time, worker,
                   processed>>
    /\ UNCHANGED pipeline

\* lines 134-142: the first upload of the list with the task id.
FirstWith(queue, task_id) ==
    LET at == {i \in DOMAIN queue : queue[i].task_id = task_id}
    IN  IF at = {} THEN NoTask
        ELSE <<queue[CHOOSE i \in at : \A j \in at : i <= j]>>

\* lines 132-144: upload_queue is searched under the lock, then
\* processing_queue, then None.
get_upload_status(c) ==
    /\ Enters(c, "get_upload_status")
    /\ calls' = [calls EXCEPT ![c].pc = "idle", ![c].result =
                    IF FirstWith(upload_queue, calls[c].task_id) # NoTask
                    THEN FirstWith(upload_queue, calls[c].task_id)
                    ELSE FirstWith(processing_queue, calls[c].task_id)]
    /\ UNCHANGED <<upload_queue, processing_queue, user_workspaces, lock, unix_time,
                   worker, issued, processed>>
    /\ UNCHANGED pipeline

\* lines 163-171
get_queue_status(c) ==
    /\ Enters(c, "get_queue_status")
    /\ Returns(c, [upload_queue_length |-> Len(upload_queue),
                   processing_queue_length |-> Len(processing_queue),
                   active_users |-> Cardinality(user_workspaces),
                   user_workspaces |-> user_workspaces])
    /\ UNCHANGED <<upload_queue, processing_queue, user_workspaces, lock, unix_time,
                   worker, issued, processed>>
    /\ UNCHANGED pipeline

\* lines 27-44
create_user_workspace(c) ==
    /\ Enters(c, "create_user_workspace")
    /\ user_workspaces' = user_workspaces \cup {calls[c].user_id}
    /\ Returns(c, calls[c].user_id)
    /\ UNCHANGED <<upload_queue, processing_queue, lock, unix_time, worker, issued,
                   processed>>
    /\ UNCHANGED pipeline

\* line 108: the worker enters `with self.lock`.
WorkerAcquire ==
    /\ worker.pc = "top"
    /\ lock = "free"
    /\ lock' = "worker"
    /\ worker' = [worker EXCEPT !.pc = "check"]
    /\ UNCHANGED <<upload_queue, processing_queue, user_workspaces, unix_time, calls,
                   issued, processed>>
    /\ UNCHANGED pipeline

\* lines 109-114: with an empty queue the worker goes into time.sleep(1)
\* inside the with block; otherwise it pops the head and leaves the block.
WorkerCheck ==
    /\ worker.pc = "check"
    /\ IF upload_queue = <<>>
       THEN /\ worker' = [worker EXCEPT !.pc = "sleep"]
            /\ UNCHANGED <<upload_queue, lock>>
       ELSE /\ worker' = [pc |-> "process", upload_task |-> Head(upload_queue)]
            /\ upload_queue' = Tail(upload_queue)
            /\ lock' = "free"
    /\ UNCHANGED <<processing_queue, user_workspaces, unix_time, calls, issued,
                   processed>>
    /\ UNCHANGED pipeline

\* lines 110-111: the sleep ends; `continue` leaves the with block, which
\* releases the lock, and the loop starts over.
WorkerWake ==
    /\ worker.pc = "sleep"
    /\ lock' = "free"
    /\ worker' = [worker EXCEPT !.pc = "top"]
    /\ UNCHANGED <<upload_queue, processing_queue, user_workspaces, unix_time, calls,
                   issued, processed>>
    /\ UNCHANGED pipeline

\* lines 116-118
WorkerProcess ==
    /\ worker.pc = "process"
    /\ worker' = [worker EXCEPT !.pc = "finish",
                                !.upload_task.status = "processing"]
    /\ UNCHANGED <<upload_queue, processing_queue, user_workspaces, lock, unix_time,
                   calls, issued, processed>>
    /\ UNCHANGED pipeline

\* lines 120-130: the simulated processing ends and the upload is marked
\* completed, or an exception of the try block marks it failed.
WorkerFinish ==
    /\ worker.pc = "finish"
    /\ \E status \in {"completed", "failed"} :
            /\ worker' = [worker EXCEPT !.pc = "top",
                                        !.upload_task.status = status]
            /\ processed' = Append(processed,
                                   [worker.upload_task EXCEPT !.status = status])
    /\ UNCHANGED <<upload_queue, processing_queue, user_workspaces, lock, unix_time,
                   calls, issued>>
    /\ UNCHANGED pipeline

\* The clock reaches the next second.
Tick ==
    /\ unix_time < MaxTime
    /\ unix_time' = unix_time + 1
    /\ UNCHANGED <<upload_queue, processing_queue, user_workspaces, lock,
                   worker, calls, issued, processed>>
    /\ UNCHANGED pipeline

\* The handler alone: no upload request is in the pipeline.
InitMU ==
    /\ InitHandler
    /\ loc = [t \in Tasks |-> InitLoc(NoFile)]
    /\ gen = [u \in Syncs |-> InitGen(NoFile)]
    /\ tasks = [t \in Tasks |-> InitTask(NoFile)]
    /\ store = {}
    /\ nextId = 1
    /\ history = {}
    /\ clock = 1
    /\ faults = 0
    /\ thr = [t \in Tasks |-> <<>>]
    /\ fs = NoFiles

WorkerStep ==
    WorkerAcquire \/ WorkerCheck \/ WorkerWake \/ WorkerProcess \/ WorkerFinish

CallStep(c) ==
    \/ add_to_upload_queue(c)
    \/ get_upload_status(c)
    \/ get_queue_status(c)
    \/ create_user_workspace(c)

NextMU ==
    \/ \E c \in Callers : Request(c) \/ CallStep(c)
    \/ WorkerStep
    \/ Tick

\* The worker is a started daemon thread and every call runs on a request
\* thread: the interpreter schedules each thread that stays runnable.
SpecMU ==
    /\ InitMU
    /\ [][NextMU]_vars
    /\ WF_vars(WorkerStep)
    /\ \A c \in Callers : WF_vars(CallStep(c))

\* ===================================================================== claims
Done(t) == L(t).pc = "done"

OrdersOf(t) == {L(t).all_order_data[k].OrderNumber : k \in 1..Len(L(t).all_order_data)}

\* C1: a check_interface_status result produced after its chunk's wait has
\* expired is never merged into interface_results, and no stored order
\* carries fields taken from such a result.
C1_NoLateResultMerged ==
    /\ \A t \in Tasks : \A o \in DOMAIN L(t).interface_results :
            ~L(t).interface_results[o].late
    /\ \A r \in store : ~r.late

\* C2: the order store holds at most one record per order number, and an
\* upload that found an order number stored has written that same record
\* (same identity), adding none.
C2_OneRecordPerOrderNumber ==
    /\ \A r1, r2 \in store : r1.OrderNumber = r2.OrderNumber => r1 = r2
    /\ \A t \in Tasks : L(t).pc \in {"complete", "finally", "done"} =>
            \A k \in 1..Len(L(t).to_update) :
                \E r \in store : /\ r.Id = L(t).to_update[k].id
                                 /\ r.OrderNumber = L(t).to_update[k].data.OrderNumber

\* C2 witness: two uploads of the same order number ran concurrently (the
\* second insert hit the constraint) and both have finished.
C2_Witness ==
    /\ \A t \in Tasks : Done(t)
    /\ \E t \in Tasks : L(t).failed_orders # {}
    /\ store # {}

\* The stored state, without the fields that name the run (and without the
\* model's bookkeeping).
RunIndependent(rows) ==
    {[OrderNumber |-> r.OrderNumber, OrderStatus |-> r.OrderStatus,
      ItemId |-> r.ItemId, InterfaceStatus |-> r.InterfaceStatus,
      OrderNumberFlexo |-> r.OrderNumberFlexo,
      OrderStatusFlexo |-> r.OrderStatusFlexo,
      ItemIdFlexo |-> r.ItemIdFlexo] : r \in rows}

\* The answers a run merged, without the model's bookkeeping.
Answers(t) ==
    [o \in DOMAIN L(t).interface_results |->
        <<L(t).interface_results[o].status,
          L(t).interface_results[o].found_in_external>>]

\* C3: ingesting the same spreadsheet twice, one run after the other on a
\* store that was empty, with identical external answers, leaves the same
\* stored state (run id and upload time aside); run 1 reports new = N and
\* run 2 reports replaced = N.
C3_ReingestIdempotent ==
    \A t1, t2 \in Tasks :
        (/\ t1 # t2
         /\ Done(t1) /\ Done(t2)
         /\ tasks[t1].status = "completed" /\ tasks[t2].status = "completed"
         /\ L(t1).file = L(t2).file
         /\ L(t1).after = {} /\ L(t2).after = {t1}
         /\ Answers(t1) = Answers(t2))
        => /\ L(t1).new_count = Len(L(t1).all_order_data)
           /\ L(t2).replaced_count = Len(L(t2).all_order_data)
           /\ RunIndependent(L(t2).snapshot) = RunIndependent(L(t1).snapshot)

\* C4: a task whose background run has ended is Completed or Failed.
C4_EndsTerminal ==
    \A t \in Tasks : Done(t) => tasks[t].status \in {"completed", "failed"}

\* C5 as amended: a record written for an order that the reconciliation
\* had no match for (reported not found, or no result for its chunk) is
\* 'Not Yet Interface' and carries no foreign value: the foreign order
\* number is NULL or the empty string, the foreign order status is the
\* empty string and the foreign item-id list is NULL.
C5_AbsentStoredWithoutForeignValues ==
    \A r \in store : r.recon \in {"notfound", "noresult"} =>
        /\ r.InterfaceStatus = "Not Yet Interface"
        /\ r.OrderNumberFlexo \in {None, ""}
        /\ r.OrderStatusFlexo = ""
        /\ r.ItemIdFlexo = <<>>

\* C5 witness: both kinds of record are stored, one inserted for an order
\* reported not found and one updated.
C5_Witness ==
    /\ \E r \in store : r.recon = "notfound" /\ r.path = "insert"
    /\ \E r \in store : r.recon \in {"notfound", "noresult"} /\ r.path = "update"

\* C5 as stated: the three foreign fields of such a record are NULL.
C5_AbsentStoredWithNullFields ==
    \A r \in store : r.recon \in {"notfound", "noresult"} =>
        /\ r.InterfaceStatus = "Not Yet Interface"
        /\ r.OrderNumberFlexo = None
        /\ r.OrderStatusFlexo = None
        /\ r.ItemIdFlexo = <<>>

\* C6: the record stored for an order reported not found in time is the
\* record the same upload stores when the order's chunk times out.
C6_TimeoutLikeNotFound ==
    \A r \in store : r.recon = "notfound" =>
        LET d == AssignInterface(r.OrderNumber, EmptyDict)
        IN  /\ r.InterfaceStatus = d.InterfaceStatus
            /\ r.OrderNumberFlexo = d.OrderNumberFlexo
            /\ r.OrderStatusFlexo = d.OrderStatusFlexo
            /\ r.ItemIdFlexo = d.ItemIdFlexo

\* The distinct order numbers of a sheet after trimming, empty and
\* whitespace-only cells ignored.
DistinctOrderNumbers(rows) ==
    {Strip(rows[i].on) : i \in {j \in 1..Len(rows) : Strip(rows[j].on) # <<>>}}

\* C7: normalization in process_upload_background yields exactly N
\* canonical records, one per distinct trimmed order number of the sheet.
C7_OneCanonicalRecordPerOrderNumber ==
    \A t \in Tasks : L(t).all_order_data # <<>> =>
        /\ Len(L(t).all_order_data) = Cardinality(DistinctOrderNumbers(L(t).file.rows))
        /\ OrdersOf(t) = DistinctOrderNumbers(L(t).file.rows)

\* The order number of an orderlist line: the text before its comma.
RECURSIVE OrderNumberOfLine(_)
OrderNumberOfLine(line) ==
    IF line = <<>> \/ Head(line) = "," THEN <<>>
    ELSE <<Head(line)>> \o OrderNumberOfLine(Tail(line))

\* C8: the artifact generate_orderlist_for_not_interfaced leaves at the
\* path it resolved has exactly one line per 'Not Yet Interface' order of
\* the upload it ran for, and no line for any other order.
C8_ArtifactListsNotInterfaced ==
    \A u \in Syncs :
        (G(u).pc = "done" /\ G(u).ran /\ G(u).orderlist_path # NoPath) =>
            LET expected == {r.OrderNumber : r \in
                                {q \in G(u).uploaded_orders :
                                    q.InterfaceStatus = "Not Yet Interface"}}
            IN  /\ G(u).left.exists
                /\ {OrderNumberOfLine(l) : l \in Range(G(u).left.lines)} = expected
                /\ Len(G(u).left.lines) = Cardinality(expected)

\* C9: when both uploads carry an order number and both have completed,
\* the stored record is the one of the upload with the later timestamp.
C9_LastWriterWins ==
    \A t1, t2 \in Tasks :
        (/\ t1 # t2
         /\ Done(t1) /\ Done(t2)
         /\ tasks[t1].status = "completed" /\ tasks[t2].status = "completed"
         /\ L(t1).current_time < L(t2).current_time)
        => \A r \in store : r.OrderNumber \in OrdersOf(t1) \cap OrdersOf(t2)
                => r.TaskId = t2 /\ r.UploadDate = L(t2).current_time

InvalidInput(file) ==
    \/ file.fname = "nomatch"
    \/ ~file.ext_ok
    \/ file.missing
    \/ NonEmptyCount(file.rows) = 0

\* C10: an upload that fails input validation ends Failed with the cause
\* as its message, having made no external call and no write other than
\* its own task status.
C10_ValidationAbortsBeforeWrites ==
    \A t \in Tasks : (Done(t) /\ InvalidInput(L(t).file)) =>
        /\ L(t).calls = 0
        /\ t \notin history
        /\ \A r \in store : r.TaskId # t
        /\ tasks[t].status = "failed"
        /\ tasks[t].error_message \in
                {"Invalid filename format", "Unsupported file format",
                 "Missing required columns", "No valid order numbers found"}

\* The chunk of the reconciliation loop that asks about an order number
\* (0 for one that is not sent).
ChunkOf(t, o) ==
    LET list == OrderNumbersList(L(t).all_order_data)
        at   == {p \in 1..Len(list) : list[p] = o}
    IN  IF at = {} THEN 0
        ELSE ((CHOOSE p \in at : TRUE) - 1) \div EXTERNAL_CHUNK_SIZE + 1

\* C11: an external failure never aborts the upload: a row an upload wrote
\* for an order whose chunk timed out is 'Not Yet Interface', and, no
\* database fault occurring, an upload that reached the reconciliation
\* ends completed.
C11_ExternalFailureDegrades ==
    \A t \in Tasks :
        /\ \A r \in store :
                (r.TaskId = t /\ ChunkOf(t, r.OrderNumber) \in L(t).expired)
                    => r.InterfaceStatus = "Not Yet Interface"
        /\ (Done(t) /\ L(t).calls > 0 /\ faults = 0)
                => tasks[t].status = "completed"

\* C12: after a bulk insert that failed on the constraint, every row of
\* the insert-set is stored or recorded as failed, the update-set is
\* applied to the rows the existence query found, and the task is not
\* failed (it ends completed when no database fault occurs).
C12_FallbackInsertsRowByRow ==
    \A t \in Tasks :
        /\ (L(t).pc \in {"complete", "finally", "done"} /\ L(t).err = None) =>
            /\ \A k \in 1..Len(L(t).to_insert) :
                    \/ L(t).to_insert[k].OrderNumber \in L(t).failed_orders
                    \/ \E r \in L(t).snapshot :
                            r.OrderNumber = L(t).to_insert[k].OrderNumber
            /\ L(t).failed_orders \subseteq
                    {L(t).to_insert[k].OrderNumber : k \in 1..Len(L(t).to_insert)}
            /\ \A k \in 1..Len(L(t).to_update) :
                    \E r \in L(t).snapshot :
                        /\ r.Id = L(t).to_update[k].id
                        /\ r.TaskId = t
                        /\ r.UploadDate = L(t).current_time
        /\ L(t).fi > 0 => tasks[t].status # "failed"
        /\ (L(t).fi > 0 /\ Done(t) /\ faults = 0) => tasks[t].status = "completed"

\* C12 witness: a fallback in which one row failed and another was
\* inserted has run and the task is completed.
C12_Witness ==
    \E t \in Tasks :
        /\ Done(t) /\ tasks[t].status = "completed"
        /\ L(t).fi > 0 /\ L(t).failed_orders # {}
        /\ \E k \in 1..Len(L(t).to_insert) :
                L(t).to_insert[k].OrderNumber \notin L(t).failed_orders

\* C13: no step changes the InterfaceStatus of a stored order from
\* 'Interface' to anything else.
C13_NoReverseTransition ==
    [][\A r \in store : r.InterfaceStatus = "Interface" =>
            \A q \in store' : q.Id = r.Id => q.InterfaceStatus = "Interface"]_vars

\* C14: a row is 'Interface' only if the upload that wrote it held an
\* in-time result for that order number reporting a confirmed match.
C14_InterfaceOnlyOnConfirmedMatch ==
    \A r \in store : r.InterfaceStatus = "Interface" =>
        /\ r.recon = "found"
        /\ ~r.late
        /\ External(r.OrderNumber) = "interfaced"

\* C15: two requests whose orderlist runs overlap resolve different
\* paths, each named after the request's own task id.
C15_PathPerUpload ==
    \A u, v \in Syncs :
        (/\ u # v
         /\ v \in G(u).overlap
         /\ G(u).orderlist_path # NoPath
         /\ G(v).orderlist_path # NoPath)
        => /\ G(u).orderlist_path # G(v).orderlist_path
           /\ G(u).orderlist_path[3] = u
           /\ G(v).orderlist_path[3] = v

C17_StatusTransitions ==
    [][\A t \in Tasks : tasks'[t].status # tasks[t].status =>
            /\ <<tasks[t].status, tasks'[t].status>> \in
                    {<<"pending", "processing">>, <<"processing", "completed">>,
                     <<"processing", "failed">>}
            /\ loc'[t].pc # loc[t].pc]_vars

\* C17 witness: a task set failed by a validation step has been through
\* the failure handler as well.
C17_Witness ==
    \E t \in Tasks :
        /\ Done(t) /\ tasks[t].status = "failed"
        /\ L(t).err = "Missing required columns"

\* C18: once the loop has gone past a chunk whose worker had not finished
\* when the wait expired, interface_results holds nothing for the order
\* numbers of that chunk.
C18_ExpiredChunkMergedEmpty ==
    \A t \in Tasks : \A k \in L(t).expired :
        L(t).i > k =>
            \A o \in Range(Chunk(L(t).all_order_data, k)) :
                o \notin DOMAIN L(t).interface_results

\* C19: a reconciliation query is sent only after normalization; the
\* existence check and the writes happen only after the loop has sent and
\* left every chunk; the task is completed only after the upsert has
\* committed.
C19_StagesInOrder ==
    \A t \in Tasks :
        /\ L(t).calls > 0 =>
                L(t).all_order_data = NormalizeBackground(Cells(L(t).file))
        /\ (\/ L(t).pc \in {"insert", "fallback", "update", "complete"}
            \/ \E r \in store : r.TaskId = t)
                => /\ Len(thr[t]) * EXTERNAL_CHUNK_SIZE >=
                            Len(OrderNumbersList(L(t).all_order_data))
                   /\ L(t).i > Len(thr[t])
                   /\ L(t).calls = Len(thr[t])
        /\ tasks[t].status = "completed" =>
                /\ L(t).pc \in {"finally", "done"}
                /\ L(t).err = None
                /\ L(t).snapshot # {}

\* C19 witness: a completed upload of two chunks, one of which timed out.
C19_Witness ==
    \E t \in Tasks :
        /\ tasks[t].status = "completed"
        /\ Len(thr[t]) = 2
        /\ L(t).expired # {}

\* C20: when process_upload_background has returned, the session it
\* opened is closed.
C20_SessionClosed ==
    \A t \in Tasks : Done(t) => L(t).sess = "closed"

\* C20 witness: the run ended through the failure handler whose own
\* commit raised, and the session is closed.
C20_Witness ==
    \E t \in Tasks :
        /\ Done(t) /\ L(t).err = "database error"
        /\ tasks[t].status = "processing"
        /\ L(t).sess = "closed"

\* C21: the canonical record of an order number has the scalar field of
\* the first row of the file that carries that order number, and its item-id
\* list holds the non-empty item identifiers of all the rows of that order
\* number, each once.
C21_FirstScalarsDistinctItems ==
    \A t \in Tasks : \A k \in 1..Len(L(t).all_order_data) :
        LET c    == L(t).all_order_data[k]
            rows == Cells(L(t).file)
            mine == {i \in 1..Len(rows) : Strip(rows[i].on) = c.OrderNumber}
            top  == CHOOSE i \in mine : \A j \in mine : i <= j
        IN  c.OrderNumber # <<>> =>
                /\ c.OrderStatus = rows[top].st
                /\ Range(c.ItemId) = {rows[i].sku : i \in mine} \ {""}
                /\ Len(c.ItemId) = Cardinality(Range(c.ItemId))

\* C21 witness: the sheet whose order changes its scalar cell after the
\* first row and repeats a SKU has been normalised and stored.
C21_Witness ==
    \E t \in Tasks :
        /\ L(t).file.rows = SheetRepeatedItems
        /\ tasks[t].status = "completed"
        /\ \E r \in store :
                r.TaskId = t /\ r.OrderStatus = "x" /\ r.ItemId = <<"s1", "s2">>

C23_LineFormatAndKeyWarning ==
    \A u \in Syncs :
        LET keyed == G(u).file.channel \in {"ZALORA", "BLIBLI"}
                        /\ G(u).shop_id # NoShopId
            nyi   == {r.OrderNumber : r \in
                        {q \in G(u).uploaded_orders :
                            q.InterfaceStatus = "Not Yet Interface"}}
        IN  /\ G(u).pc \in {"written", "done"} /\ G(u).order_count > 0 =>
                /\ Len(G(u).wrote) = Cardinality(nyi)
                /\ \A o \in nyi : \E k \in 1..Len(G(u).wrote) :
                        G(u).wrote[k] =
                            IF keyed THEN o \o <<",">> \o G(u).shop_id ELSE o
            /\ (G(u).pc = "done" /\ G(u).success) =>
                    G(u).shop_id_warning = (G(u).shop_id = NoShopId)
            /\ (G(u).pc = "done" /\ G(u).ran /\ G(u).orderlist_path # NoPath
                    /\ ~G(u).success) => G(u).left.readonly

\* C23 witness: a ZALORA run without a shop key has written its file and
\* returned the warning, while another ZALORA run wrote keyed lines.
C23_Witness ==
    \E u, v \in Syncs :
        /\ G(u).pc = "done" /\ G(u).success /\ G(u).shop_id_warning
        /\ G(u).file.channel = "ZALORA"
        /\ G(v).pc = "written" /\ G(v).shop_id # NoShopId
        /\ \E l \in Range(G(v).wrote) : "," \in Range(l)

\* C24: the artifact a run of the writer has written and verified is
\* read-only as long as no consumer run has been prepared for that upload,
\* and it is writable once the downstream executable has been started for
\* it.
C24_ReadOnlyUntilConsumed ==
    \A u \in Syncs :
        (G(u).pc = "done" /\ G(u).success) =>
            /\ (\A v \in Syncs : G(v).consumer \in {"idle", "disabled"})
                    => fs[G(u).orderlist_path].readonly
            /\ G(u).consumer = "started"
                    => ~fs[G(u).orderlist_path].readonly

\* The order numbers an orderlist file lists.
Listed(file) == {OrderNumberOfLine(l) : l \in Range(file.lines)}

\* C25: when an upload has ended with some of its orders stored as 'Not
\* Yet Interface', an orderlist artifact listing exactly those orders has
\* been published, for a background upload as for a synchronous one.
C25_UnresolvedOrdersPublished ==
    /\ \A t \in Tasks :
            LET nyi == {r.OrderNumber : r \in
                            {q \in L(t).snapshot :
                                q.TaskId = t /\ q.InterfaceStatus = "Not Yet Interface"}}
            IN  (Done(t) /\ tasks[t].status = "completed" /\ nyi # {}) =>
                    \E p \in DOMAIN fs : p[2] # "fixed" /\ Listed(fs[p]) = nyi
    /\ \A u \in Syncs :
            LET nyi == {r.OrderNumber : r \in
                            {q \in G(u).uploaded_orders :
                                q.InterfaceStatus = "Not Yet Interface"}}
            IN  (G(u).pc = "done" /\ nyi # {}) =>
                    \E p \in DOMAIN fs : p[2] # "fixed" /\ Listed(fs[p]) = nyi

\* C26: a Tokopedia upload (no date column) with valid order numbers, no
\* database fault occurring, ends completed with a record stored for each
\* of its order numbers.
C26_NoDateColumnIngested ==
    \A t \in Tasks :
        (/\ Done(t) /\ faults = 0
         /\ L(t).file.channel = "TOKOPEDIA" /\ ~InvalidInput(L(t).file))
        => /\ tasks[t].status = "completed"
           /\ \A o \in DistinctOrderNumbers(L(t).file.rows) :
                    \E r \in store : r.OrderNumber = o

\* C27: for a completed task, new + replaced is the number of canonical
\* records of the upload, and total_orders is that same number.
C27_CountsConsistent ==
    \A t \in Tasks : tasks[t].status = "completed" =>
        /\ L(t).new_count + L(t).replaced_count = Len(L(t).all_order_data)
        /\ tasks[t].total_orders = Len(L(t).all_order_data)

\* C28: for the same file, upload_file and process_upload_background
\* produce the same canonical records (order number, first-row scalar
\* field, deduplicated item-id list), with or without a SKU column.
C28_SameCanonicalRecords ==
    \A t \in Tasks : \A u \in Syncs :
        (/\ L(t).file = G(u).file
         /\ L(t).all_order_data # <<>>
         /\ G(u).pc \notin {"absent", "received"})
        => /\ G(u).pc # "failed"
           /\ Range(G(u).all_order_data) = Range(L(t).all_order_data)

\* The task ids of a list of uploads.
TaskIds(queue) == [i \in DOMAIN queue |-> queue[i].task_id]

\* C29: the task ids of the queued uploads are pairwise distinct, and
\* get_upload_status resolves every id add_to_upload_queue returned, also
\* after the worker has taken the upload from the queue.
C29_TaskIdsUniqueAndResolvable ==
    /\ \A i, j \in DOMAIN upload_queue :
            upload_queue[i].task_id = upload_queue[j].task_id => i = j
    /\ \A c \in Callers :
            (calls[c].op = "get_upload_status" /\ calls[c].pc = "idle")
            => calls[c].result # NoTask

\* C30: the worker never holds the lock across its idle wait, so a call to
\* the handler can take the lock while the worker waits; uploads are
\* processed in the order they were queued, each exactly once.
C30_CallsProceedDuringIdleWait ==
    /\ worker.pc = "sleep" => lock = "free"
    /\ issued = TaskIds(processed)
                 \o (IF worker.pc \in {"process", "finish"}
                        THEN <<worker.upload_task.task_id>> ELSE <<>>)
                 \o TaskIds(upload_queue)

=============================================================================
